---- MODULE Spec2Model ----
(***************************************************************************)
(* Timeline interval algebra of the hardcut stage (src/hardcut.py).        *)
(*                                                                         *)
(* Times are exact multiples of one microsecond: the integer n stands for  *)
(* n * 1e-6 s, so EPS = 1e-6 s is the integer 1.                           *)
(***************************************************************************)
EXTENDS Integers, Sequences, FiniteSets, TLC

\* ---------------------------------------------------------------- bounds
MaxT == 7
MaxLen == 2
MaxSegs == 3
MaxShots == 2
MaxWShots == 3

\* ------------------------------------------------------ program constants
EPS == 1
\* 0.01 s: the shortest segment kept (the test "length <= 0.01") and the grid
\* of round(x, 2).
Centi == 10000
\* 1e-3 s: the rescale tolerance and the grid of round(x, 3).
Milli == 1000
\* data["video"].get("fps", 30.0)
Fps == 30
\* Stands for a JSON value that float() rejects.
NonNumeric == -1
\* The probability 1.0; probabilities are counted in hundredths.
ProbabilityOne == 100

Min(a, b) == IF a <= b THEN a ELSE b
Max(a, b) == IF a >= b THEN a ELSE b
Abs(a) == IF a >= 0 THEN a ELSE -a

VARIABLES
    pc,                \* position in the run
    intervals,         \* argument of _merge_intervals / the raw cut requests
    merged,            \* result of _merge_intervals(intervals)
    exc,               \* the exception raised, "none" when none
    duration,          \* data["video"]["duration"]
    cuts,              \* raw cut list built by _add_interval
    cuts_merged,       \* _merge_intervals(cuts)
    keeps,             \* _build_keeps(cuts_merged, duration)
    shots,             \* data["shots"]: the shots in key order, with their segments
    hardcut_duration,  \* _compute_offsets(keeps)[1]
    new_segments,      \* the remapped segments, in walk order
    logical_duration,  \* the unrounded logical_duration, a fraction <<num, den>>
    new_data,          \* the document rebuild_json_with_shots returns
    bgm_shots,         \* the shots handed to the window partitioner, as (start, end)
    min_window,        \* the minimum window length W
    groups,            \* the windows the partitioner returned
    work,              \* the files present in the work directory
    log                \* the stages started and the steps done, in order

ivars == <<intervals, merged>>
rvars == <<shots, hardcut_duration, new_segments, logical_duration, new_data>>
wvars == <<bgm_shots, min_window, groups>>
pvars == <<work, log>>

vars == <<pc, intervals, merged, exc, duration, cuts, cuts_merged, keeps,
          shots, hardcut_duration, new_segments, logical_duration, new_data,
          bgm_shots, min_window, groups, work, log>>

\* All sequences of length <= n over the set S.
SeqsUpTo(S, n) == UNION {[1..k -> S] : k \in 0..n}

\* ------------------------------------------------------- _add_interval
\* Mutant of Clamp: the upper clamp to the duration is forgotten.
ClampLowOnly(x, d) == Max(0, x)

Clamp(x, d) == Max(0, Min(x, d))

_add_interval(ivs, s, e, d) ==
    LET s1 == Clamp(s, d)
        e1 == Clamp(e, d)
    IN IF e1 - s1 > EPS THEN Append(ivs, <<s1, e1>>) ELSE ivs

\* ----------------------------------------------------- _merge_intervals
\* Mutant of Normalize: the pair is swapped instead of ordered.
NormalizeSwap(p) == <<p[2], p[1]>>

Normalize(p) == <<Min(p[1], p[2]), Max(p[1], p[2])>>

NonDegenerate(p) == Abs(p[2] - p[1]) > EPS

\* intervals = [(min(a, b), max(a, b)) for a, b in intervals if abs(b - a) > EPS]
RECURSIVE Filtered(_)
Filtered(ivs) ==
    IF ivs = <<>> THEN <<>>
    ELSE IF NonDegenerate(Head(ivs))
         THEN <<Normalize(Head(ivs))>> \o Filtered(Tail(ivs))
         ELSE Filtered(Tail(ivs))

\* Insert p behind every element whose start is <= p's start (a stable sort).
RECURSIVE InsertByStart(_, _)
InsertByStart(sorted, p) ==
    IF sorted = <<>> THEN <<p>>
    ELSE IF Head(sorted)[1] <= p[1]
         THEN <<Head(sorted)>> \o InsertByStart(Tail(sorted), p)
         ELSE <<p>> \o sorted

\* intervals.sort(key=lambda x: x[0])
RECURSIVE SortByStart(_)
SortByStart(ivs) ==
    IF ivs = <<>> THEN <<>>
    ELSE InsertByStart(SortByStart(SubSeq(ivs, 1, Len(ivs) - 1)), ivs[Len(ivs)])

\* Mutant of Mergeable: the tolerance is left out of the comparison.
MergeableNoEps(s, cur_e) == s <= cur_e

Mergeable(s, cur_e) == s <= cur_e + EPS

\* Mutant of Extend: the running end is overwritten instead of maximised.
ExtendOverwrite(cur_e, e) == e

Extend(cur_e, e) == Max(cur_e, e)

RECURSIVE MergeSweep(_, _, _, _)
MergeSweep(rest, cur_s, cur_e, out) ==
    IF rest = <<>> THEN Append(out, <<cur_s, cur_e>>)
    ELSE LET s == Head(rest)[1]
             e == Head(rest)[2]
         IN IF Mergeable(s, cur_e)
            THEN MergeSweep(Tail(rest), cur_s, Extend(cur_e, e), out)
            ELSE MergeSweep(Tail(rest), s, e, Append(out, <<cur_s, cur_e>>))

\* intervals[0] of an empty filtered list raises IndexError.
MergeRaises(ivs) == ivs # <<>> /\ Filtered(ivs) = <<>>

_merge_intervals(ivs) ==
    IF ivs = <<>> THEN <<>>
    ELSE LET srt == SortByStart(Filtered(ivs))
         IN IF srt = <<>> THEN <<>>
            ELSE MergeSweep(Tail(srt), srt[1][1], srt[1][2], <<>>)

\* --------------------------------------------------------- _build_keeps
\* Mutant of KeepGap: a gap has to be wider than 2 * EPS to be kept.
KeepGapWide(s, cur) == s - cur > 2 * EPS

\* Mutant of KeepGap: an empty gap is kept too.
KeepGapNoEps(s, cur) == s - cur >= 0

\* if s - cur > EPS
KeepGap(s, cur) == s - cur > EPS

RECURSIVE BuildKeepsLoop(_, _, _, _)
BuildKeepsLoop(cs, cur, d, out) ==
    IF cs = <<>>
    THEN IF d - cur > EPS THEN Append(out, <<cur, d>>) ELSE out
    ELSE LET s == Head(cs)[1]
             e == Head(cs)[2]
         IN BuildKeepsLoop(Tail(cs), Max(cur, e), d,
                           IF KeepGap(s, cur) THEN Append(out, <<cur, s>>) ELSE out)

_build_keeps(cs, d) == BuildKeepsLoop(cs, 0, d, <<>>)


\* -------------------------------------------------------- _compute_offsets
\* Mutant of KeepLength: the start is not subtracted.
KeepLengthEndOnly(k) == k[2]

\* e - s
KeepLength(k) == k[2] - k[1]

RECURSIVE OffsetsLoop(_, _, _)
OffsetsLoop(ks, acc, offsets) ==
    IF ks = <<>> THEN <<offsets, acc>>
    ELSE OffsetsLoop(Tail(ks), acc + KeepLength(Head(ks)), Append(offsets, acc))

_compute_offsets(ks) == OffsetsLoop(ks, 0, <<>>)

\* ------------------------------------------------------------ arithmetic
RECURSIVE GCD(_, _)
GCD(a, b) == IF b = 0 THEN a ELSE GCD(b, a % b)

\* The fraction n / d in lowest terms (n >= 0, d > 0).
Frac(n, d) == LET g == GCD(n, d) IN <<n \div g, d \div g>>

\* The fraction a * b / c in lowest terms, reduced before it is multiplied out.
MulDiv(a, b, c) ==
    LET f1 == Frac(a, c)
        f2 == Frac(b, f1[2])
    IN <<f1[1] * f2[1], f2[2]>>

\* The fraction q / unit in lowest terms, q a fraction.
FracDiv(q, unit) ==
    LET f == Frac(q[1], unit)
    IN <<f[1], q[2] * f[2]>>

\* Python's round(): the nearest integer, a tie going to the even one.
RoundHalfEven(q) ==
    LET fl == q[1] \div q[2]
        r == q[1] % q[2]
    IN IF 2 * r < q[2] THEN fl
       ELSE IF 2 * r > q[2] THEN fl + 1
       ELSE IF fl % 2 = 0 THEN fl ELSE fl + 1

\* round(q, 2) and round(q, 3) of a fraction q of microseconds, in microseconds.
RoundQ(q, unit) == unit * RoundHalfEven(FracDiv(q, unit))

round2(x) == RoundQ(<<x, 1>>, Centi)

round3(x) == RoundQ(<<x, 1>>, Milli)

\* ------------------------------------- rebuild_json_with_shots: flattening
\* float(v), with the value taken when float() raises
FloatOr(v, dflt) == IF v = NonNumeric THEN dflt ELSE v

_shot_start(shot) == FloatOr(shot.start, 0)

\* sorted(shots_dict.keys(), key=_shot_start): a stable sort
RECURSIVE InsertShot(_, _)
InsertShot(sorted, shot) ==
    IF sorted = <<>> THEN <<shot>>
    ELSE IF _shot_start(Head(sorted)) <= _shot_start(shot)
         THEN <<Head(sorted)>> \o InsertShot(Tail(sorted), shot)
         ELSE <<shot>> \o sorted

RECURSIVE SortShots(_)
SortShots(shs) ==
    IF shs = <<>> THEN <<>>
    ELSE InsertShot(SortShots(SubSeq(shs, 1, Len(shs) - 1)), shs[Len(shs)])

\* _orig_seg_start / _orig_seg_end of one segment
OrigTimes(seg) ==
    LET s_float == FloatOr(seg[1], 0)
        e_float == FloatOr(seg[2], s_float)
    IN <<s_float, e_float>>

RECURSIVE FlatOfShots(_)
FlatOfShots(shs) ==
    IF shs = <<>> THEN <<>>
    ELSE [i \in 1..Len(Head(shs).segments) |-> OrigTimes(Head(shs).segments[i])]
         \o FlatOfShots(Tail(shs))

Flat(shs) == FlatOfShots(SortShots(shs))

\* ------------------------------ rebuild_json_with_shots: timeline remapper
\* if length <= 0.01: continue
TooShort(length) == length <= Centi

\* Mutant of Advance: the running offset is never advanced.
AdvanceStuck(t, length) == t

\* t += length
Advance(t, length) == t + length

RECURSIVE RemapWalk(_, _, _)
RemapWalk(flat, t, out) ==
    IF flat = <<>> THEN <<out, t>>
    ELSE LET s_orig == Head(flat)[1]
             e_orig == Head(flat)[2]
             length == Max(e_orig - s_orig, 0)
         IN IF TooShort(length)
            THEN RemapWalk(Tail(flat), t, out)
            ELSE RemapWalk(Tail(flat), Advance(t, length),
                           Append(out, [orig_start |-> round3(s_orig),
                                        orig_end |-> round3(e_orig),
                                        start |-> round2(t),
                                        end |-> round2(t + length)]))

\* Mutant of NeedsRescale: a shorter timeline is rescaled as well.
NeedsRescaleAnyLength(hd, logical) == hd > 0 /\ logical > Milli

\* if hardcut_duration > 0 and logical_duration > hardcut_duration + 1e-3
NeedsRescale(hd, logical) == hd > 0 /\ logical > hd + Milli

\* Mutant of ScaledTime: the ratio is inverted.
ScaledTimeInverted(acc, hd, logical) == MulDiv(acc, logical, hd)

\* ratio = hardcut_duration / logical_duration, and t, the sum of the new_len
\* so far: acc * ratio, with acc the sum of the lengths so far.
ScaledTime(acc, hd, logical) == MulDiv(acc, hd, logical)

RECURSIVE RescaleWalk(_, _, _, _, _)
RescaleWalk(segs, acc, hd, logical, out) ==
    IF segs = <<>> THEN <<out, ScaledTime(acc, hd, logical)>>
    ELSE LET seg == Head(segs)
             length == seg.end - seg.start
         IN RescaleWalk(Tail(segs), acc + length, hd, logical,
                Append(out, [seg EXCEPT
                    !.start = RoundQ(ScaledTime(acc, hd, logical), Centi),
                    !.end = RoundQ(ScaledTime(acc + length, hd, logical), Centi)]))

\* <<new_segments, logical_duration>> of the remapper, the latter a fraction.
Remap(shs, hd) ==
    LET walk == RemapWalk(Flat(shs), 0, <<>>)
    IN IF NeedsRescale(hd, walk[2])
       THEN RescaleWalk(walk[1], 0, hd, walk[2], <<>>)
       ELSE <<walk[1], <<walk[2], 1>>>>

\* -------------------------------- rebuild_json_with_shots: shot reconstructor
\* shots.sort(key=lambda s: float(s.get("start", 0.0))) raises on a start that
\* is no number, float(shot.get("end", 0.0)) on such an end.
CollectShotsRaises(shs) == \E i \in 1..Len(shs) : shs[i].start = NonNumeric

RebuildRaises(shs) ==
    \/ CollectShotsRaises(shs)
    \/ \E i \in 1..Len(shs) : shs[i].end = NonNumeric

\* _collect_shots: the first element of every key, sorted by start
_collect_shots(shs) == SortShots(shs)

\* Mutant of OverlapCounts: overlaps up to 0.01 s are left out.
OverlapCountsCenti(inter_s, inter_e) == inter_e - inter_s > Centi

\* if inter_e - inter_s > EPS
OverlapCounts(inter_s, inter_e) == inter_e - inter_s > EPS

RECURSIVE KeptLen(_, _, _, _)
KeptLen(s0, e0, ks, kept_len) ==
    IF ks = <<>> THEN kept_len
    ELSE LET inter_s == Max(s0, Head(ks)[1])
             inter_e == Min(e0, Head(ks)[2])
         IN KeptLen(s0, e0, Tail(ks),
                    IF OverlapCounts(inter_s, inter_e)
                    THEN kept_len + (inter_e - inter_s) ELSE kept_len)

ShotInfo(shot, ks) ==
    [orig_start |-> shot.start,
     orig_end |-> shot.end,
     probability |-> shot.probability,
     kept_len |-> KeptLen(shot.start, shot.end, ks, 0)]

ShotInfos(shs, ks) ==
    LET orig_shots == _collect_shots(shs)
    IN [i \in 1..Len(orig_shots) |-> ShotInfo(orig_shots[i], ks)]

\* int(round(x * fps)) of a fraction x of microseconds
Frame(x) == RoundHalfEven(FracDiv(MulDiv(x[1], Fps, 1000000), x[2]))

\* Mutant of ShotDropped: no shot is dropped.
ShotDroppedNever(kept_len) == kept_len < 0

\* if kept_len <= EPS: continue
ShotDropped(kept_len) == kept_len <= EPS

\* "probability": info["probability"]
CarriedProbability(info) == info.probability

RECURSIVE NewShotsLoop(_, _, _)
NewShotsLoop(infos, cur, out) ==
    IF infos = <<>> THEN out
    ELSE LET info == Head(infos)
             s_new == cur
             e_new == cur + info.kept_len
         IN IF ShotDropped(info.kept_len)
            THEN NewShotsLoop(Tail(infos), cur, out)
            ELSE NewShotsLoop(Tail(infos), e_new,
                     Append(out, [start |-> round3(s_new),
                                  end |-> round3(e_new),
                                  start_frame |-> Frame(<<s_new, 1>>),
                                  end_frame |-> Frame(<<e_new, 1>>),
                                  probability |-> CarriedProbability(info),
                                  segments |-> <<>>]))

\* Mutant of FallbackShot: the shot ends where it starts.
FallbackShotEmpty(logical) ==
    [start |-> 0,
     end |-> 0,
     start_frame |-> 0,
     end_frame |-> 0,
     probability |-> ProbabilityOne,
     segments |-> <<>>]

\* The single shot used when no shot is left.
FallbackShot(logical) ==
    [start |-> 0,
     end |-> RoundQ(logical, Milli),
     start_frame |-> 0,
     end_frame |-> Frame(logical),
     probability |-> ProbabilityOne,
     segments |-> <<>>]

NewShotsList(shs, ks, logical) ==
    LET built == NewShotsLoop(ShotInfos(shs, ks), 0, <<>>)
    IN IF built = <<>> THEN <<FallbackShot(logical)>> ELSE built

\* st - 1e-6 <= mid <= ed + 1e-6 with mid = 0.5 * (s + e), both sides doubled
MidInside(seg, shot) ==
    /\ 2 * (shot.start - EPS) <= seg.start + seg.end
    /\ seg.start + seg.end <= 2 * (shot.end + EPS)

\* Mutant of AttachIndex: the last shot that holds the midpoint is taken.
AttachLastMatch(seg, new_shots) ==
    IF \E i \in 1..Len(new_shots) : MidInside(seg, new_shots[i])
    THEN CHOOSE i \in 1..Len(new_shots) :
             /\ MidInside(seg, new_shots[i])
             /\ \A j \in (i + 1)..Len(new_shots) : ~MidInside(seg, new_shots[j])
    ELSE Len(new_shots)

\* The index of the shot a remapped segment is attached to.
AttachIndex(seg, new_shots) ==
    IF \E i \in 1..Len(new_shots) : MidInside(seg, new_shots[i])
    THEN CHOOSE i \in 1..Len(new_shots) :
             /\ MidInside(seg, new_shots[i])
             /\ \A j \in 1..(i - 1) : ~MidInside(seg, new_shots[j])
    ELSE Len(new_shots)

RECURSIVE Attach(_, _)
Attach(segs, new_shots) ==
    IF segs = <<>> THEN new_shots
    ELSE LET k == AttachIndex(Head(segs), new_shots)
         IN Attach(Tail(segs),
                   [new_shots EXCEPT ![k].segments = Append(@, Head(segs))])

RoundPairs(ivs) == [i \in 1..Len(ivs) |-> <<round3(ivs[i][1]), round3(ivs[i][2])>>]

\* The document rebuild_json_with_shots returns, given what the remapper made.
NewData(shs, ks, hd, dur, remapped) ==
    [video |-> [orig_duration |-> round3(dur),
                duration |-> round3(hd),
                logical_duration |-> RoundQ(remapped[2], Milli)],
     shots |-> Attach(remapped[1], NewShotsList(shs, ks, remapped[2])),
     whisper |-> [num_segments |-> Len(remapped[1])],
     hardcut |-> <<>>]

\* new_data["hardcut"] = {...} in main
WithHardcut(doc, cs, ks, hd) ==
    [doc EXCEPT !.hardcut = [cuts |-> RoundPairs(cs),
                             keeps |-> RoundPairs(ks),
                             total_duration |-> round3(hd)]]

\* The segments of the shots that precede shot k in the flattening order
\* (smaller _shot_start, or the same and an earlier key), counted over the
\* first i shots.
RECURSIVE SegsBefore(_, _, _)
SegsBefore(shs, k, i) ==
    IF i = 0 THEN 0
    ELSE SegsBefore(shs, k, i - 1)
         + (IF \/ _shot_start(shs[i]) < _shot_start(shs[k])
               \/ (_shot_start(shs[i]) = _shot_start(shs[k]) /\ i < k)
            THEN Len(shs[i].segments) ELSE 0)

\* The entries of flat[1..f] that the walk keeps.
RECURSIVE KeptUpTo(_, _)
KeptUpTo(flat, f) ==
    IF f = 0 THEN 0
    ELSE KeptUpTo(flat, f - 1)
         + (IF TooShort(Max(flat[f][2] - flat[f][1], 0)) THEN 0 ELSE 1)

\* Mutant of DocumentAfterRetiming: the flattened records are the document's
\* own segments, so the new start and end are written into the document.
DocumentAliased(shs, segs) ==
    LET flat == Flat(shs)
    IN [k \in 1..Len(shs) |->
          [shs[k] EXCEPT !.segments =
              [j \in 1..Len(shs[k].segments) |->
                  LET f == SegsBefore(shs, k, Len(shs)) + j
                  IN IF TooShort(Max(flat[f][2] - flat[f][1], 0))
                     THEN shs[k].segments[j]
                     ELSE <<segs[KeptUpTo(flat, f)].start,
                            segs[KeptUpTo(flat, f)].end>>]]]

\* seg_copy = dict(seg): the walk and the rescale write start and end into
\* copies, and the document given to the function is as it was.
DocumentAfterRetiming(shs, segs) == shs

\* Before rebuild_json_with_shots has returned.
NoData == [video |-> <<>>, shots |-> <<>>, whisper |-> <<>>, hardcut |-> <<>>]

\* ------------------------------------------------------------- the spec
Times == 0..MaxT
Pairs == Times \X Times

Init ==
    /\ pc = "input"
    /\ intervals \in SeqsUpTo(Pairs, MaxLen)
    /\ merged = <<>>
    /\ exc = "none"
    /\ duration = 0
    /\ cuts = <<>>
    /\ cuts_merged = <<>>
    /\ keeps = <<>>
    /\ shots = <<>>
    /\ hardcut_duration = 0
    /\ new_segments = <<>>
    /\ logical_duration = <<0, 1>>
    /\ new_data = NoData
    /\ bgm_shots = <<>>
    /\ min_window = 0
    /\ groups = <<>>
    /\ work = {}
    /\ log = <<>>

\* _merge_intervals applied to an arbitrary list of pairs.
MergeIntervals ==
    /\ pc = "input"
    /\ IF MergeRaises(intervals)
       THEN pc' = "raised" /\ exc' = "IndexError" /\ merged' = merged
       ELSE pc' = "merged" /\ exc' = exc /\ merged' = _merge_intervals(intervals)
    /\ UNCHANGED <<intervals, duration, cuts, cuts_merged, keeps, rvars, wvars, pvars>>

RECURSIVE AddAll(_, _, _)
AddAll(reqs, d, out) ==
    IF reqs = <<>> THEN out
    ELSE AddAll(Tail(reqs), d, _add_interval(out, Head(reqs)[1], Head(reqs)[2], d))

\* The cut requests of compute_cut_and_keep_intervals go through _add_interval.
AddIntervals(d) ==
    /\ pc = "input"
    /\ pc' = "cuts"
    /\ duration' = d
    /\ cuts' = AddAll(intervals, d, <<>>)
    /\ intervals' = <<>>
    /\ UNCHANGED <<merged, exc, cuts_merged, keeps, rvars, wvars, pvars>>

MergeCuts ==
    /\ pc = "cuts"
    /\ pc' = "cuts_merged"
    /\ cuts_merged' = _merge_intervals(cuts)
    /\ UNCHANGED <<intervals, merged, exc, duration, cuts, keeps, rvars, wvars, pvars>>

BuildKeeps ==
    /\ pc = "cuts_merged"
    /\ pc' = "keeps"
    /\ keeps' = _build_keeps(cuts_merged, duration)
    /\ UNCHANGED <<intervals, merged, exc, duration, cuts, cuts_merged, rvars, wvars, pvars>>

\* A list of cuts (s <= e) sorted by start, pairwise disjoint, inside [0, d].
SortedDisjointWithin(cs, d) ==
    /\ \A i \in 1..Len(cs) : 0 <= cs[i][1] /\ cs[i][1] <= cs[i][2] /\ cs[i][2] <= d
    /\ \A i \in 1..(Len(cs) - 1) : cs[i][2] <= cs[i + 1][1]

\* _build_keeps applied to a sorted, disjoint cut list of any shape.
BuildKeepsOf(d) ==
    /\ pc = "input"
    /\ SortedDisjointWithin(intervals, d)
    /\ pc' = "keeps_of"
    /\ duration' = d
    /\ cuts_merged' = intervals
    /\ keeps' = _build_keeps(intervals, d)
    /\ UNCHANGED <<intervals, merged, exc, cuts, rvars, wvars, pvars>>

Next ==
    \/ MergeIntervals
    \/ \E d \in 1..MaxT : AddIntervals(d)
    \/ MergeCuts
    \/ BuildKeeps
    \/ \E d \in 1..MaxT : BuildKeepsOf(d)

Spec == Init /\ [][Next]_vars

\* ------------------------------------------- the rebuild of the document
\* All times of this part lie on a 0.1 s timeline. Segment times are multiples
\* of 0.01 s, as main.py writes them ("%.2f"); an inverted pair and a pair
\* whose start is no number stand for the malformed records the function
\* guards against. Shot times and cut boundaries come from the shot detector
\* and lie on no grid.
Durations == {100400}

\* Cut requests, already clamped, as _add_interval leaves them.
CutLists ==
    { <<>>,
      <<<<20400, 50000>>>>,
      <<<<0, 80000>>>>,
      <<<<0, 20400>>, <<50001, 100400>>>>,
      <<<<30000, 50000>>, <<50000, 100400>>>>,
      <<<<0, 100400>>>> }

Shot(s, e, p, segs) == [start |-> s, end |-> e, probability |-> p, segments |-> segs]

\* Shot intervals with their probabilities (hundredths).
ShotTimes ==
    { <<0, 30000, 90>>, <<30000, 100400, 40>>, <<0, 50001, 70>>,
      <<50001, 100400, 20>>, <<0, 100400, 60>>, <<20399, 50001, 30>> }

\* Segments as the document holds them: (start, end).
SegPairs ==
    { <<0, 20000>>, <<20000, 30000>>, <<30000, 90000>>, <<50000, 40000>>,
      <<NonNumeric, 20000>> }

\* Documents rich in segments: one or two tiling shots, in either key order,
\* with up to MaxSegs segments spread over them.
TileSets ==
    { <<<<0, 100400, 60>>>>,
      <<<<0, 30000, 90>>, <<30000, 100400, 40>>>>,
      <<<<30000, 100400, 40>>, <<0, 30000, 90>>>> }

SegsOf(placed, k) == SelectSeq(placed, LAMBDA x : x[1] = k)

SegmentDocs ==
    { [k \in 1..Len(tiles) |->
          Shot(tiles[k][1], tiles[k][2], tiles[k][3],
               LET mine == SegsOf(placed, k)
               IN [i \in 1..Len(mine) |-> mine[i][2]])] :
        tiles \in TileSets,
        placed \in SeqsUpTo((1..2) \X SegPairs, MaxSegs) }

\* Documents rich in shots: up to MaxShots shots, the first holding the
\* segments.
ShotSegLists == { <<>>, <<<<0, 20000>>, <<30000, 90000>>>> }

ShotDocs ==
    { [k \in 1..Len(sts) |->
          Shot(sts[k][1], sts[k][2], sts[k][3], IF k = 1 THEN segs ELSE <<>>)] :
        sts \in SeqsUpTo(ShotTimes, MaxShots),
        segs \in ShotSegLists }

InitRebuild ==
    /\ pc = "cuts"
    /\ duration \in Durations
    /\ cuts \in CutLists
    /\ shots \in SegmentDocs \cup ShotDocs
    /\ intervals = <<>>
    /\ merged = <<>>
    /\ exc = "none"
    /\ cuts_merged = <<>>
    /\ keeps = <<>>
    /\ hardcut_duration = 0
    /\ new_segments = <<>>
    /\ logical_duration = <<0, 1>>
    /\ new_data = NoData
    /\ bgm_shots = <<>>
    /\ min_window = 0
    /\ groups = <<>>
    /\ work = {}
    /\ log = <<>>

\* main after compute_cut_and_keep_intervals: the early return on an empty
\* keep list, _compute_offsets, rebuild_json_with_shots and the hardcut entry.
Rebuild ==
    /\ pc = "keeps"
    /\ IF keeps = <<>>
       THEN /\ pc' = "exit"
            /\ UNCHANGED <<exc, rvars>>
       ELSE LET hd == _compute_offsets(keeps)[2]
                remapped == Remap(shots, hd)
            IN IF RebuildRaises(shots)
               THEN /\ pc' = "raised"
                    /\ exc' = "ValueError"
                    /\ hardcut_duration' = hd
                    /\ UNCHANGED <<shots, new_segments, logical_duration, new_data>>
               ELSE /\ pc' = "rebuilt"
                    /\ hardcut_duration' = hd
                    /\ new_segments' = remapped[1]
                    /\ logical_duration' = remapped[2]
                    /\ new_data' = WithHardcut(
                           NewData(shots, keeps, hd, duration, remapped),
                           cuts_merged, keeps, hd)
                    /\ shots' = DocumentAfterRetiming(shots, remapped[1])
                    /\ UNCHANGED exc
    /\ UNCHANGED <<intervals, merged, duration, cuts, cuts_merged, keeps, wvars, pvars>>

NextRebuild ==
    \/ MergeCuts
    \/ BuildKeeps
    \/ Rebuild

SpecRebuild == InitRebuild /\ [][NextRebuild]_vars

\* ------------------------------------- compute_cut_and_keep_intervals
TRIM_HEAD_SEC == 2000000
TRIM_TAIL_SEC == 2000000
SHOT_MARGIN_SEC == 3500000
LONG_SEG_THRESH_SEC == 15000000
SEG_TAIL_CUT_SEC == 2000000

\* [t - SHOT_MARGIN_SEC, t + SHOT_MARGIN_SEC] for the start t of every shot
\* but the first (starts: the shot starts, sorted).
ShotRequests(starts) ==
    [i \in 1..(Len(starts) - 1) |->
        <<starts[i + 1] - SHOT_MARGIN_SEC, starts[i + 1] + SHOT_MARGIN_SEC>>]

\* Mutant of SegmentSkipped: only an inverted segment is skipped.
SegmentSkippedInverted(seg) == seg[2] <= seg[1]

\* float() raises on the start or the end (continue), or e <= s (continue)
SegmentSkipped(seg) ==
    seg[1] = NonNumeric \/ seg[2] = NonNumeric \/ seg[2] <= seg[1]

\* Mutant of LongSegment: the threshold is doubled.
LongSegmentDoubled(seg) == seg[2] - seg[1] >= 2 * LONG_SEG_THRESH_SEC

\* if length >= LONG_SEG_THRESH_SEC
LongSegment(seg) == seg[2] - seg[1] >= LONG_SEG_THRESH_SEC

RECURSIVE SegmentRequests(_)
SegmentRequests(segs) ==
    IF segs = <<>> THEN <<>>
    ELSE IF ~SegmentSkipped(Head(segs)) /\ LongSegment(Head(segs))
         THEN <<<<Head(segs)[2] - SEG_TAIL_CUT_SEC, Head(segs)[2]>>>>
              \o SegmentRequests(Tail(segs))
         ELSE SegmentRequests(Tail(segs))

\* The calls of _add_interval, in order, as (s, e).
CutRequests(d, starts, segs) ==
    <<<<0, TRIM_HEAD_SEC>>, <<d - TRIM_TAIL_SEC, d>>>>
    \o ShotRequests(starts) \o SegmentRequests(segs)

\* Mutant of DurationRaises: only a negative duration is refused.
DurationRaisesNegative(d) == d < 0

\* if duration <= 0: raise ValueError
DurationRaises(d) == d <= 0

\* _collect_segments: the segments of all shots, in key order
RECURSIVE _collect_segments(_)
_collect_segments(shs) ==
    IF shs = <<>> THEN <<>> ELSE Head(shs).segments \o _collect_segments(Tail(shs))

\* The starts of the shots _collect_shots returns.
ShotStarts(shs) ==
    LET sorted == _collect_shots(shs)
    IN [i \in 1..Len(sorted) |-> sorted[i].start]

\* --------------------------------------------------- the window partitioner
\* All times of this part are multiples of 0.05 s.
\* if duration - cur_start > 0.1
Tenth == 100000

\* _extract_shots (bgm_create) and _collect_shots (final_mapping): the shots
\* as (start, end), sorted by start.
_extract_shots(shs) == SortByStart(shs)

\* Mutant of GroupStillShort: a window is closed one shot too early.
GroupClosedAlways(cur_len, min_window_) == FALSE

\* if cur_len < min_window
GroupStillShort(cur_len, min_window_) == cur_len < min_window_

\* Mutant of AbsorbGap: a gap before the shot is not absorbed.
AbsorbNoGap(s, cur_end) == cur_end

\* if s > cur_end: cur_end = s
AbsorbGap(s, cur_end) == IF s > cur_end THEN s ELSE cur_end

RECURSIVE GroupsLoop(_, _, _, _, _)
GroupsLoop(rest, cur_start, cur_end, min_window_, out) ==
    IF rest = <<>> THEN Append(out, <<cur_start, cur_end>>)
    ELSE LET s == Head(rest)[1]
             e == Head(rest)[2]
             ce == AbsorbGap(s, cur_end)
             cur_len == ce - cur_start
         IN IF GroupStillShort(cur_len, min_window_)
            THEN GroupsLoop(Tail(rest), cur_start, e, min_window_, out)
            ELSE GroupsLoop(Tail(rest), s, e, min_window_,
                            Append(out, <<cur_start, ce>>))

\* Mutant of MergeShortTail: the last group is left as it is.
MergeShortTailNever(gs, min_window_) == gs

\* A last group shorter than min_window is merged into the one before it.
MergeShortTail(gs, min_window_) ==
    LET n == Len(gs)
    IN IF n >= 2 /\ gs[n][2] - gs[n][1] < min_window_
       THEN Append(SubSeq(gs, 1, n - 2), <<gs[n - 1][1], gs[n][2]>>)
       ELSE gs

_build_bgm_groups(shs, min_window_) ==
    IF shs = <<>> THEN <<>>
    ELSE MergeShortTail(
             GroupsLoop(Tail(shs), shs[1][1], shs[1][2], min_window_, <<>>),
             min_window_)

\* The starts of shots[1:] strictly inside (0, duration), in shot order.
RECURSIVE BoundariesOf(_, _)
BoundariesOf(rest, d) ==
    IF rest = <<>> THEN <<>>
    ELSE IF 0 < Head(rest)[1] /\ Head(rest)[1] < d
         THEN <<Head(rest)[1]>> \o BoundariesOf(Tail(rest), d)
         ELSE BoundariesOf(Tail(rest), d)

\* Mutant of BoundaryAccepted: the remainder behind the boundary is not tested.
BoundaryFrontOnly(front, back, min_bgm_sec) == front >= min_bgm_sec

\* if front >= min_bgm_sec and back >= min_bgm_sec
BoundaryAccepted(front, back, min_bgm_sec) ==
    front >= min_bgm_sec /\ back >= min_bgm_sec

\* Mutant of FinalGroupEmitted: the last window is never appended.
FinalGroupNever(cur_start, d) == FALSE

\* if duration - cur_start > 0.1
FinalGroupEmitted(cur_start, d) == d - cur_start > Tenth

RECURSIVE SweepLoop(_, _, _, _, _)
SweepLoop(bs, cur_start, d, min_bgm_sec, out) ==
    IF bs = <<>>
    THEN IF FinalGroupEmitted(cur_start, d) THEN Append(out, <<cur_start, d>>) ELSE out
    ELSE LET t == Head(bs)
         IN IF BoundaryAccepted(t - cur_start, d - t, min_bgm_sec)
            THEN SweepLoop(Tail(bs), t, d, min_bgm_sec, Append(out, <<cur_start, t>>))
            ELSE SweepLoop(Tail(bs), cur_start, d, min_bgm_sec, out)

\* Mutant of BgmGroupsRaises: only a negative duration is refused.
BgmGroupsRaisesNegative(d) == d < 0

\* if duration <= 0: raise ValueError
BgmGroupsRaises(d) == d <= 0

\* compute_bgm_groups where it returns. boundaries.sort() leaves the starts of
\* a list sorted by start as they are.
compute_bgm_groups(shs, d, min_bgm_sec) ==
    LET sorted == _extract_shots(shs)
    IN IF sorted = <<>> THEN <<<<0, d>>>>
       ELSE SweepLoop(BoundariesOf(Tail(sorted), d), 0, d, min_bgm_sec, <<>>)

WTimes == {0, 50000, 150000, 300000}
WPairs == {p \in WTimes \X WTimes : p[1] <= p[2]}
WMins == {50000, 100000, 150000}
WDurations == {-50000, 0, 100000, 150000, 300000, 400000, 450000}

InitWindows ==
    /\ pc = "windows"
    /\ bgm_shots \in SeqsUpTo(WPairs, MaxWShots)
    /\ min_window \in WMins
    /\ duration \in WDurations
    /\ groups = <<>>
    /\ work = {}
    /\ log = <<>>
    /\ intervals = <<>>
    /\ merged = <<>>
    /\ exc = "none"
    /\ cuts = <<>>
    /\ cuts_merged = <<>>
    /\ keeps = <<>>
    /\ shots = <<>>
    /\ hardcut_duration = 0
    /\ new_segments = <<>>
    /\ logical_duration = <<0, 1>>
    /\ new_data = NoData

\* bgm_create: the shots are extracted and grouped.
BuildBgmGroups ==
    /\ pc = "windows"
    /\ pc' = "greedy"
    /\ groups' = _build_bgm_groups(_extract_shots(bgm_shots), min_window)
    /\ UNCHANGED <<ivars, exc, duration, cuts, cuts_merged, keeps, rvars,
                   bgm_shots, min_window, pvars>>

\* final_mapping: compute_bgm_groups on the document.
ComputeBgmGroups ==
    /\ pc = "windows"
    /\ IF BgmGroupsRaises(duration)
       THEN pc' = "raised" /\ exc' = "ValueError" /\ groups' = groups
       ELSE /\ pc' = "boundary"
            /\ exc' = exc
            /\ groups' = compute_bgm_groups(bgm_shots, duration, min_window)
    /\ UNCHANGED <<ivars, duration, cuts, cuts_merged, keeps, rvars,
                   bgm_shots, min_window, pvars>>

\* compute_cut_and_keep_intervals on a document without segments: the raise
\* on a duration <= 0, else the cuts, their merge and the keeps.
CutAndKeepIntervals ==
    /\ pc = "windows"
    /\ IF DurationRaises(duration)
       THEN /\ pc' = "raised"
            /\ exc' = "ValueError"
            /\ UNCHANGED <<cuts, cuts_merged, keeps>>
       ELSE LET starts == [i \in 1..Len(bgm_shots) |-> _extract_shots(bgm_shots)[i][1]]
                raw == AddAll(CutRequests(duration, starts, <<>>), duration, <<>>)
            IN /\ pc' = "cut_and_keep"
               /\ exc' = exc
               /\ cuts' = raw
               /\ cuts_merged' = _merge_intervals(raw)
               /\ keeps' = _build_keeps(_merge_intervals(raw), duration)
    /\ UNCHANGED <<ivars, duration, rvars, wvars, pvars>>

NextWindows ==
    \/ BuildBgmGroups
    \/ ComputeBgmGroups
    \/ CutAndKeepIntervals

SpecWindows == InitWindows /\ [][NextWindows]_vars

\* ------------------------------------------------------------ the pipeline
\* main.py from the call of hardcut_main on: the four stages one after the
\* other. work holds the files of the work directory, log what was started
\* and done. A hardcut document left by an earlier run is a well-formed one,
\* with at least one shot and a duration above 0.1 s.
MIN_BGM_WINDOW_SEC == 15000000
MIN_BGM_SEC == 15000000

StaleFiles == {"hardcut_json", "hardcut_video", "subtitled_video", "bgm"}
StaleSets == {{}, {"hardcut_json", "hardcut_video"}, StaleFiles}

PDurations == {0, 4000000, 40000000}

\* Shots as (start, end, probability); three of them are malformed.
PShotTimes ==
    { <<0, 20000000, 90>>, <<20000000, 40000000, 40>>, <<0, 40000000, 60>>,
      <<NonNumeric, 20000000, 50>>, <<20000000, NonNumeric, 50>>,
      <<30000000, 10000000, 30>> }

\* The segments of the first shot; the last three lists hold a malformed one.
PSegLists ==
    { <<>>,
      <<<<3000000, 10000000>>>>,
      <<<<3000000, 10000000>>, <<12000000, 30000000>>>>,
      <<<<NonNumeric, 10000000>>, <<3000000, 10000000>>>>,
      <<<<3000000, 10000000>>, <<12000000, NonNumeric>>>>,
      <<<<12000000, 11000000>>, <<3000000, 10000000>>>> }

PipelineDocs ==
    { [k \in 1..Len(sts) |->
          Shot(sts[k][1], sts[k][2], sts[k][3], IF k = 1 THEN segs ELSE <<>>)] :
        sts \in SeqsUpTo(PShotTimes, MaxShots),
        segs \in PSegLists }

InitPipeline ==
    /\ pc = "start"
    /\ duration \in PDurations
    /\ shots \in PipelineDocs
    /\ work \in StaleSets
    /\ log = <<>>
    /\ intervals = <<>>
    /\ merged = <<>>
    /\ exc = "none"
    /\ cuts = <<>>
    /\ cuts_merged = <<>>
    /\ keeps = <<>>
    /\ hardcut_duration = 0
    /\ new_segments = <<>>
    /\ logical_duration = <<0, 1>>
    /\ new_data = NoData
    /\ bgm_shots = <<>>
    /\ min_window = 0
    /\ groups = <<>>

\* hardcut.main up to the cut requests of compute_cut_and_keep_intervals: the
\* raise on a duration <= 0, the raise of _collect_shots, the raw cuts.
CollectCuts ==
    /\ pc = "start"
    /\ log' = Append(log, "hardcut")
    /\ IF DurationRaises(duration) \/ CollectShotsRaises(shots)
       THEN pc' = "raised" /\ exc' = "ValueError" /\ cuts' = cuts
       ELSE /\ pc' = "cuts"
            /\ exc' = exc
            /\ cuts' = AddAll(CutRequests(duration, ShotStarts(shots),
                                          _collect_segments(shots)),
                              duration, <<>>)
    /\ UNCHANGED <<ivars, duration, cuts_merged, keeps, rvars, wvars, work>>

\* hardcut.main behind rebuild_json_with_shots: the document is written and
\* ffmpeg_cut_and_concat is run, with or without success.
WriteAndCut ==
    /\ pc = "rebuilt"
    /\ pc' = "exit"
    /\ log' = log \o <<"hardcut_json", "cut_and_concat">>
    /\ \E ok \in BOOLEAN :
          work' = work \cup {"hardcut_json"}
                       \cup (IF ok THEN {"hardcut_video"} ELSE {})
    /\ UNCHANGED <<ivars, exc, duration, cuts, cuts_merged, keeps, rvars, wvars>>

\* subtitle.main, called when hardcut_main has returned.
SubtitleMain ==
    /\ pc = "exit"
    /\ pc' = "subtitle_done"
    /\ IF "hardcut_video" \notin work \/ "hardcut_json" \notin work
       THEN log' = Append(log, "subtitle") /\ work' = work
       ELSE /\ log' = log \o <<"subtitle", "drawtext">>
            /\ \E ok \in BOOLEAN :
                  work' = work \cup (IF ok THEN {"subtitled_video"} ELSE {})
    /\ UNCHANGED <<ivars, exc, duration, cuts, cuts_merged, keeps, rvars, wvars>>

\* The document of this run, when this run has written one.
WrittenNow == \E i \in 1..Len(log) : log[i] = "hardcut_json"

\* The shots of the written document as (start, end).
WrittenShots == [i \in 1..Len(new_data.shots) |->
                    <<new_data.shots[i].start, new_data.shots[i].end>>]

\* bgm_create.main: _load_json raises without a document; else the shots are
\* grouped and a piece of music is asked for every group.
BgmMain ==
    /\ pc = "subtitle_done"
    /\ IF "hardcut_json" \notin work
       THEN /\ pc' = "raised"
            /\ exc' = "FileNotFoundError"
            /\ log' = Append(log, "bgm")
            /\ UNCHANGED <<work, wvars>>
       ELSE /\ pc' = "bgm_done"
            /\ exc' = exc
            /\ log' = log \o <<"bgm", "generate">>
            /\ \E ok \in BOOLEAN : work' = work \cup (IF ok THEN {"bgm"} ELSE {})
            /\ IF WrittenNow
               THEN /\ bgm_shots' = WrittenShots
                    /\ min_window' = MIN_BGM_WINDOW_SEC
                    /\ groups' = _build_bgm_groups(_extract_shots(WrittenShots),
                                                   MIN_BGM_WINDOW_SEC)
               ELSE UNCHANGED wvars
    /\ UNCHANGED <<ivars, duration, cuts, cuts_merged, keeps, rvars>>

\* final_mapping.main: the early returns, compute_bgm_groups, the mix.
FinalMappingMain ==
    /\ pc = "bgm_done"
    /\ IF ~({"hardcut_json", "subtitled_video", "bgm"} \subseteq work)
       THEN /\ pc' = "done"
            /\ log' = Append(log, "final")
            /\ UNCHANGED <<exc, work, wvars>>
       ELSE IF WrittenNow /\ BgmGroupsRaises(new_data.video.duration)
       THEN /\ pc' = "raised"
            /\ exc' = "ValueError"
            /\ log' = Append(log, "final")
            /\ UNCHANGED <<work, wvars>>
       ELSE /\ pc' = "done"
            /\ exc' = exc
            /\ IF WrittenNow
               THEN /\ bgm_shots' = WrittenShots
                    /\ min_window' = MIN_BGM_SEC
                    /\ groups' = compute_bgm_groups(WrittenShots,
                                     new_data.video.duration, MIN_BGM_SEC)
               ELSE UNCHANGED wvars
            /\ IF WrittenNow /\ groups' = <<>>
               THEN log' = Append(log, "final") /\ work' = work
               ELSE /\ log' = log \o <<"final", "mix">>
                    /\ \E ok \in BOOLEAN :
                          work' = work \cup (IF ok THEN {"final_output"} ELSE {})
    /\ UNCHANGED <<ivars, duration, cuts, cuts_merged, keeps, rvars>>

NextPipeline ==
    \/ CollectCuts
    \/ MergeCuts
    \/ BuildKeeps
    \/ Rebuild
    \/ WriteAndCut
    \/ SubtitleMain
    \/ BgmMain
    \/ FinalMappingMain

SpecPipeline == InitPipeline /\ [][NextPipeline]_vars

\* ===================================================================
\* Properties of the interval algebra (checked under Spec)
\* ===================================================================
RECURSIVE SumLen(_)
SumLen(ivs) == IF ivs = <<>> THEN 0 ELSE (Head(ivs)[2] - Head(ivs)[1]) + SumLen(Tail(ivs))

\* The cell [z, z+1] lies inside one interval of ivs (pairs taken as (min, max)).
CellCovered(z, ivs) ==
    \E i \in 1..Len(ivs) :
        /\ Min(ivs[i][1], ivs[i][2]) <= z
        /\ z + 1 <= Max(ivs[i][1], ivs[i][2])

\* The pairs of ivs longer than EPS.
LongPairs(ivs) == {i \in 1..Len(ivs) : Abs(ivs[i][2] - ivs[i][1]) > EPS}

\* No stretch of [lo, hi] longer than EPS is left uncovered by ivs: among any
\* EPS + 1 consecutive cells one is covered.
NoWideGap(lo, hi, ivs) ==
    \A z \in lo..(hi - EPS - 1) : \E c \in z..(z + EPS) : CellCovered(c, ivs)

Overlap(a, b) == Min(a[2], b[2]) - Max(a[1], b[1])

\* C1 (coverage identity): the keeps built from a merged cut-set inside
\* [0, D], together with the cuts, leave no uncovered gap of [0, D] wider than
\* EPS, and no keep interval overlaps a cut interval; with D = 100 s and cuts
\* [(0,3),(50,50.5)] the keeps are [(3,50),(50.5,100)].
C1_CoverageIdentity ==
    /\ pc = "keeps" =>
        /\ NoWideGap(0, duration, keeps \o cuts_merged)
        /\ \A i \in 1..Len(keeps) : \A j \in 1..Len(cuts_merged) :
               Overlap(keeps[i], cuts_merged[j]) <= 0
        /\ \A i \in 1..Len(keeps) : 0 <= keeps[i][1] /\ keeps[i][2] <= duration
    /\ _build_keeps(<<<<0, 3000000>>, <<50000000, 50500000>>>>, 100000000)
         = <<<<3000000, 50000000>>, <<50500000, 100000000>>>>

\* Witness of C1: two merged cuts with a keep between them, and a sliver of
\* width EPS at the head of the timeline that is neither kept nor cut.
C1_Witness ==
    /\ pc = "keeps"
    /\ Len(cuts_merged) = 2
    /\ Len(keeps) >= 1
    /\ ~CellCovered(0, keeps \o cuts_merged)

\* C2 (merge idempotence): merging the result of _merge_intervals again
\* returns the same list, for every input that is empty or has a pair longer
\* than EPS.
C2_MergeIdempotent ==
    pc = "merged" => /\ ~MergeRaises(merged)
                     /\ _merge_intervals(merged) = merged

\* Witness of C2: an unsorted input with an inverted pair, merged into one.
C2_Witness ==
    /\ pc = "merged"
    /\ Len(intervals) = 2
    /\ intervals[1][1] > intervals[2][1]
    /\ intervals[2][1] > intervals[2][2] + EPS
    /\ Len(merged) = 1

\* C3: the output of _merge_intervals is sorted by start, every output
\* interval is longer than EPS, and consecutive output intervals are separated
\* by a gap strictly greater than EPS.
C3_MergedSeparated ==
    pc = "merged" =>
        /\ \A i \in 1..Len(merged) : merged[i][2] - merged[i][1] > EPS
        /\ \A i \in 1..(Len(merged) - 1) :
               /\ merged[i][1] < merged[i + 1][1]
               /\ merged[i + 1][1] - merged[i][2] > EPS

\* Witness of C3: an unsorted input that yields two separate output intervals.
C3_Witness ==
    /\ pc = "merged"
    /\ Len(merged) = 2
    /\ intervals[1][1] > intervals[2][1]

\* C4 (minimal cover): every input pair longer than EPS lies inside one
\* output interval, every output start is the (min) start and every output end
\* the (max) end of such an input pair, and no output interval contains a
\* stretch longer than EPS covered by no input pair.
C4_MinimalCover ==
    pc = "merged" =>
        /\ \A i \in LongPairs(intervals) : \E j \in 1..Len(merged) :
               /\ merged[j][1] <= Min(intervals[i][1], intervals[i][2])
               /\ Max(intervals[i][1], intervals[i][2]) <= merged[j][2]
        /\ \A j \in 1..Len(merged) :
               /\ \E i \in LongPairs(intervals) :
                      merged[j][1] = Min(intervals[i][1], intervals[i][2])
               /\ \E i \in LongPairs(intervals) :
                      merged[j][2] = Max(intervals[i][1], intervals[i][2])
               /\ NoWideGap(merged[j][1], merged[j][2],
                            [k \in 1..Len(intervals) |->
                                IF k \in LongPairs(intervals)
                                THEN intervals[k] ELSE <<0, 0>>])

\* Witness of C4: two input pairs a gap of EPS apart are bridged into one
\* output interval, which then holds a cell no input pair covers.
C4_Witness ==
    /\ pc = "merged"
    /\ Len(intervals) = 2
    /\ LongPairs(intervals) = {1, 2}
    /\ Len(merged) = 1
    /\ \E z \in merged[1][1]..(merged[1][2] - 1) : ~CellCovered(z, intervals)

\* What keeps and merged cuts leave of the duration.
ConservationError == duration - (SumLen(keeps) + SumLen(cuts_merged))

\* C5 as stated (duration conservation): keeps plus merged cuts add up to the
\* duration with an error of at most EPS * |C|, C the clamped raw cut list.
C5_ConservationPerCut ==
    pc = "keeps" => Abs(ConservationError) <= EPS * Len(cuts)

\* C5 as amended: keeps plus merged cuts never exceed the duration and fall
\* short of it by at most 2 * EPS (a sliver of at most EPS at the head and one
\* at the tail).
C5_ConservationTwoEps ==
    pc = "keeps" =>
        /\ 0 <= ConservationError
        /\ ConservationError <= 2 * EPS

\* Witness of C5: a single cut that leaves a sliver of EPS at both ends.
C5_Witness ==
    /\ pc = "keeps"
    /\ Len(cuts) = 1
    /\ ConservationError = 2 * EPS

\* ===================================================================
\* Properties of the rebuilt document (checked under SpecRebuild)
\* ===================================================================
\* C6 as stated: the reported post-cut duration (video.duration and
\* hardcut.total_duration) equals the sum of the lengths of the keep
\* intervals written to hardcut.keeps.
C6_DurationIsSumOfWrittenKeeps ==
    pc = "rebuilt" =>
        /\ new_data.video.duration = SumLen(new_data.hardcut.keeps)
        /\ new_data.hardcut.total_duration = SumLen(new_data.hardcut.keeps)

\* C6 as amended: both reported durations are the sum of the keep lengths
\* rounded to 3 decimals after the summation; the keeps are written with each
\* boundary rounded to 3 decimals, so their written lengths add up to the
\* reported duration within 0.001 s per keep interval plus 0.0005 s.
C6_DurationIsRoundedSum ==
    pc = "rebuilt" =>
        /\ hardcut_duration = SumLen(keeps)
        /\ new_data.video.duration = round3(SumLen(keeps))
        /\ new_data.hardcut.total_duration = new_data.video.duration
        /\ \A i \in 1..Len(keeps) :
               new_data.hardcut.keeps[i] = <<round3(keeps[i][1]), round3(keeps[i][2])>>
        /\ 2 * Abs(new_data.video.duration - SumLen(new_data.hardcut.keeps))
               <= 2 * Milli * Len(keeps) + Milli

\* Witness of C6: two keeps whose written lengths do not add up to the
\* reported duration.
C6_Witness ==
    /\ pc = "rebuilt"
    /\ Len(keeps) = 2
    /\ new_data.video.duration # SumLen(new_data.hardcut.keeps)

\* The segments as the contiguous walk leaves them, before any rescale.
PreScale == RemapWalk(Flat(shots), 0, <<>>)

Rescaled == NeedsRescale(hardcut_duration, PreScale[2])

\* C7 (remap monotonicity): in the remapped segment list, with or without
\* rescale, the first segment starts at 0, every segment ends no later than
\* the next one starts (+ EPS), and start times never decrease.
C7_RemapMonotone ==
    pc = "rebuilt" =>
        /\ new_segments # <<>> => new_segments[1].start = 0
        /\ \A i \in 1..(Len(new_segments) - 1) :
               /\ new_segments[i].end <= new_segments[i + 1].start + EPS
               /\ new_segments[i].start <= new_segments[i + 1].start
        /\ \A i \in 1..Len(new_segments) : new_segments[i].start <= new_segments[i].end

\* Witness of C7: three remapped segments after a rescale, taken from shots
\* whose key order is not their time order.
C7_Witness ==
    /\ pc = "rebuilt"
    /\ Rescaled
    /\ Len(new_segments) = 3
    /\ Len(shots) = 2
    /\ shots[1].start > shots[2].start

\* C8 as stated: every remapped segment is longer than 0.01 s, also after the
\* rescale and the rounding, and no segment of original length <= 0.01 s is
\* in the output.
C8_SegmentsLongerThanCenti ==
    pc = "rebuilt" =>
        /\ \A i \in 1..Len(new_segments) :
               new_segments[i].end - new_segments[i].start > Centi
        /\ Len(new_segments) =
               Cardinality({i \in 1..Len(Flat(shots)) :
                               Flat(shots)[i][2] - Flat(shots)[i][1] > Centi})

Within(x, q, tol) == Abs(x * q[2] - q[1]) <= tol * q[2]

RECURSIVE OverlapSum(_, _, _)
OverlapSum(shot, ks, thr) ==
    IF ks = <<>> THEN 0
    ELSE LET o == Max(0, Min(shot.end, Head(ks)[2]) - Max(shot.start, Head(ks)[1]))
         IN (IF o > thr THEN o ELSE 0) + OverlapSum(shot, Tail(ks), thr)

\* The shots, by start, whose kept length (overlaps longer than thr) exceeds EPS.
Survivors(thr) ==
    SelectSeq(SortShots(shots), LAMBDA sh : OverlapSum(sh, keeps, thr) > EPS)

\* The kept lengths of the first i of the shots in ss, summed.
RECURSIVE KeptBefore(_, _, _)
KeptBefore(ss, i, thr) ==
    IF i = 0 THEN 0 ELSE KeptBefore(ss, i - 1, thr) + OverlapSum(ss[i], keeps, thr)

\* The example of the scenario: shots (0,10), (10,20), (20,100) s under the
\* keeps (0,5), (15,100) s become (0,5), (5,10), (10,90) s.
ExampleShots ==
    LET built == NewShotsList(
                     <<Shot(0, 10000000, 90, <<>>), Shot(10000000, 20000000, 40, <<>>),
                       Shot(20000000, 100000000, 70, <<>>)>>,
                     <<<<0, 5000000>>, <<15000000, 100000000>>>>,
                     <<90000000, 1>>)
    IN /\ [i \in 1..Len(built) |-> <<built[i].start, built[i].end>>]
            = <<<<0, 5000000>>, <<5000000, 10000000>>, <<10000000, 90000000>>>>
       /\ [i \in 1..Len(built) |-> built[i].probability] = <<90, 40, 70>>

\* C10 as stated: the kept length of a shot is the sum of its overlaps with the
\* keeps; the new shot list holds, in the order of the original starts, exactly
\* the shots whose kept length exceeds EPS; the first starts at 0, each starts
\* where the one before ends, each is exactly as long as its kept length, and
\* each carries its probability.
C10_ShotsExact ==
    pc = "rebuilt" /\ Survivors(0) # <<>> =>
        LET ss == Survivors(0)
            ns == new_data.shots
        IN /\ Len(ns) = Len(ss)
           /\ ns[1].start = 0
           /\ \A i \in 1..Len(ns) :
                /\ i > 1 => ns[i].start = ns[i - 1].end
                /\ ns[i].end - ns[i].start = OverlapSum(ss[i], keeps, 0)
                /\ ns[i].probability = ss[i].probability

\* C10 as the code has it: the kept length of a shot sums its overlaps longer
\* than EPS; the new list holds, in the order of the original starts, exactly
\* the shots whose kept length exceeds EPS; the written start and end of the
\* i-th are the running sums of the kept lengths before and through it, rounded
\* to 0.001 s, so the first starts at 0, each starts where the one before ends,
\* and each written length is within 0.001 s of the kept length; the
\* probability is carried. With no shot left there is the one fallback shot.
C10_ShotsWithinRounding ==
    /\ ExampleShots
    /\ pc = "rebuilt" =>
        LET ss == Survivors(EPS)
            ns == new_data.shots
        IN IF ss = <<>>
           THEN Len(ns) = 1 /\ ns[1].start = 0 /\ ns[1].probability = ProbabilityOne
           ELSE /\ Len(ns) = Len(ss)
                /\ ns[1].start = 0
                /\ \A i \in 1..Len(ns) :
                     /\ ns[i].start = round3(KeptBefore(ss, i - 1, EPS))
                     /\ ns[i].end = round3(KeptBefore(ss, i, EPS))
                     /\ i > 1 => ns[i].start = ns[i - 1].end
                     /\ Abs((ns[i].end - ns[i].start) - OverlapSum(ss[i], keeps, EPS)) <= Milli
                     /\ ns[i].probability = ss[i].probability

\* Two shots, one cut short by a cut and one cut away altogether.
C10_Witness ==
    /\ pc = "rebuilt"
    /\ Len(shots) = 2
    /\ Len(Survivors(EPS)) = 1
    /\ LET sh == Survivors(EPS)[1]
       IN /\ OverlapSum(sh, keeps, EPS) < sh.end - sh.start
          /\ new_data.shots[1].end = round3(OverlapSum(sh, keeps, EPS))
          /\ new_data.shots[1].probability = sh.probability

\* A shot that touches two keeps by EPS each and is dropped for it.
C10_SliverDropped ==
    /\ pc = "rebuilt"
    /\ \E i \in 1..Len(shots) :
          OverlapSum(shots[i], keeps, 0) > EPS /\ OverlapSum(shots[i], keeps, EPS) = 0

\* ===================================================================
\* Attachment of the remapped segments to the new shots
\* ===================================================================
\* The midpoint of seg lies in [start - EPS, end + EPS] of shot (doubled).
MidWithin(seg, shot) ==
    /\ 2 * shot.start - 2 * EPS <= seg.start + seg.end
    /\ seg.start + seg.end <= 2 * shot.end + 2 * EPS

\* The shot a segment belongs to: the first that holds its midpoint, the last
\* when none does.
TargetShot(seg, ns) ==
    LET holding == {i \in 1..Len(ns) : MidWithin(seg, ns[i])}
    IN IF holding = {} THEN Len(ns)
       ELSE CHOOSE i \in holding : \A j \in holding : i <= j

RECURSIVE SegmentCount(_)
SegmentCount(ns) ==
    IF ns = <<>> THEN 0 ELSE Len(Head(ns).segments) + SegmentCount(Tail(ns))

\* C11: every remapped segment is attached to exactly one new shot, the first
\* whose [start, end] holds its midpoint within EPS and the last one when none
\* does; none is lost or duplicated, so the segments of all new shots number
\* whisper.num_segments.
C11_AttachedOnce ==
    pc = "rebuilt" =>
        LET ns == new_data.shots
        IN /\ Len(ns) >= 1
           /\ SegmentCount(ns) = new_data.whisper.num_segments
           /\ new_data.whisper.num_segments = Len(new_segments)
           /\ \A k \in 1..Len(ns) :
                ns[k].segments =
                    SelectSeq(new_segments, LAMBDA seg : TargetShot(seg, ns) = k)

\* Two new shots, a segment in the first, and a segment whose midpoint no shot
\* holds, which is found in the last.
C11_Witness ==
    /\ pc = "rebuilt"
    /\ Len(new_data.shots) >= 2
    /\ new_data.shots[1].segments # <<>>
    /\ \E i \in 1..Len(new_segments) :
          /\ \A k \in 1..Len(new_data.shots) :
                ~MidWithin(new_segments[i], new_data.shots[k])
          /\ \E n \in 1..Len(new_data.shots[Len(new_data.shots)].segments) :
                new_data.shots[Len(new_data.shots)].segments[n] = new_segments[i]

\* ===================================================================
\* Fallbacks and failures
\* ===================================================================
\* C12 as stated: a document without shots is rebuilt without an exception
\* into exactly one synthetic shot, which spans [0, post-cut duration].
C12_NoShotsFullSpan ==
    keeps # <<>> /\ shots = <<>> /\ pc \in {"rebuilt", "raised"} =>
        /\ pc = "rebuilt"
        /\ Len(new_data.shots) = 1
        /\ new_data.shots[1].start = 0
        /\ Abs(new_data.shots[1].end - new_data.video.duration) <= EPS

\* ===================================================================
\* Properties of the window partitioner (checked under SpecWindows)
\* ===================================================================
\* Every window of gs but the last is at least w long.
AllButLastLong(gs, w) == \A i \in 1..(Len(gs) - 1) : gs[i][2] - gs[i][1] >= w

\* C13: for both variants, whatever the shots (sorted by start) and W > 0,
\* every window but possibly the last one is at least W long.
C13_WindowMinimumLength ==
    pc \in {"greedy", "boundary"} => AllButLastLong(groups, min_window)

\* The greedy variant has closed two windows and a third one follows.
C13_Witness ==
    /\ pc = "greedy"
    /\ Len(groups) = 3
    /\ groups[1][2] - groups[1][1] > min_window

\* The windows follow one another from lo on: the first starts at lo, each
\* starts where the one before ends, and none ends before it starts.
ContiguousFrom(gs, lo) ==
    \A i \in 1..Len(gs) :
        /\ gs[i][1] = (IF i = 1 THEN lo ELSE gs[i - 1][2])
        /\ gs[i][1] <= gs[i][2]

NoShotOverlap(shs) == \A i \in 2..Len(shs) : shs[i][1] >= shs[i - 1][2]

\* W = 15 s and the shots (0,5), (5,8), (8,20) s give the one window (0,20) s.
ExampleGroups ==
    _build_bgm_groups(<<<<0, 5000000>>, <<5000000, 8000000>>, <<8000000, 20000000>>>>,
                      15000000) = <<<<0, 20000000>>>>

\* C15 as stated: for any non-empty shot list sorted by start the windows of
\* _build_bgm_groups are ordered, each starts exactly where the one before
\* ends, the first starts at the first shot's start and the last ends at the
\* last shot's end.
C15_GreedyCoverage ==
    pc = "greedy" /\ bgm_shots # <<>> =>
        LET shs == _extract_shots(bgm_shots)
        IN /\ groups # <<>>
           /\ ContiguousFrom(groups, shs[1][1])
           /\ groups[Len(groups)][2] = shs[Len(shs)][2]

\* C15 as the code has it: the first window starts at the first shot's start,
\* the last ends at the last shot's end, no window ends before it starts and
\* none starts behind the end of the one before (no gap); each starts exactly
\* where the one before ends when no shot starts before the shot before it
\* ends. A window closed at a shot that starts inside it is overlapped by the
\* next window.
C15_GreedyCoverageNoOverlap ==
    /\ ExampleGroups
    /\ pc = "greedy" /\ bgm_shots # <<>> =>
        LET shs == _extract_shots(bgm_shots)
        IN /\ groups # <<>>
           /\ groups[1][1] = shs[1][1]
           /\ groups[Len(groups)][2] = shs[Len(shs)][2]
           /\ \A i \in 1..Len(groups) : groups[i][1] <= groups[i][2]
           /\ \A i \in 2..Len(groups) : groups[i][1] <= groups[i - 1][2]
           /\ NoShotOverlap(shs) => ContiguousFrom(groups, shs[1][1])

\* Shots with a gap between them, grouped into two windows that meet in it.
C15_Witness ==
    /\ pc = "greedy"
    /\ Len(groups) = 2
    /\ NoShotOverlap(_extract_shots(bgm_shots))
    /\ \E i \in 2..Len(bgm_shots) :
          _extract_shots(bgm_shots)[i][1] > _extract_shots(bgm_shots)[i - 1][2]
    /\ groups[2][1] = groups[1][2]

\* C16: on a document whose duration is <= 0, compute_cut_and_keep_intervals
\* and compute_bgm_groups raise before they build any interval or window, and
\* neither ever returns a result, not even an empty one.
C16_NonPositiveDurationRaises ==
    /\ pc \in {"cut_and_keep", "boundary"} => duration > 0
    /\ pc = "raised" =>
          /\ duration <= 0
          /\ exc = "ValueError"
          /\ cuts = <<>> /\ cuts_merged = <<>> /\ keeps = <<>> /\ groups = <<>>

\* A document with shots and the duration 0 has been refused.
C16_Witness ==
    /\ pc = "raised"
    /\ exc = "ValueError"
    /\ duration = 0
    /\ Len(bgm_shots) >= 2

\* ===================================================================
\* Properties of the pipeline (checked under SpecPipeline)
\* ===================================================================
\* C17 as stated: when the merged cuts cover all of [0, duration], the keep-set
\* builder signals an error to its caller; compute_cut_and_keep_intervals
\* never returns with an empty keep list, and hardcut.main does not return
\* normally from it.
C17_EmptyKeepsFail ==
    /\ pc = "keeps" => keeps # <<>>
    /\ pc = "exit" /\ keeps = <<>> => exc # "none"

\* compute_cut_and_keep_intervals has returned an empty keep list.
EmptyKeepSet ==
    /\ keeps = <<>>
    /\ pc \in {"keeps", "exit", "subtitle_done", "bgm_done", "done", "raised"}
    /\ \E i \in 1..Len(log) : log[i] = "hardcut"
    /\ ~DurationRaises(duration) /\ ~CollectShotsRaises(shots)

\* C18 as stated: with an empty keep set the pipeline stops: the hardcut stage
\* writes no document and runs no transcoder, and no later stage is started,
\* whatever files the work directory holds.
C18_EmptyKeepsStopPipeline ==
    EmptyKeepSet => log = <<"hardcut">>

\* A record whose start or end is no number, or whose end is before its start.
MalformedSegment(seg) ==
    seg[1] = NonNumeric \/ seg[2] = NonNumeric \/ seg[2] < seg[1]

MalformedShot(sh) ==
    sh.start = NonNumeric \/ sh.end = NonNumeric \/ sh.end < sh.start

\* The document without its malformed shots and segments.
WithoutMalformed(shs) ==
    LET well == SelectSeq(shs, LAMBDA sh : ~MalformedShot(sh))
    IN [i \in 1..Len(well) |->
           [well[i] EXCEPT !.segments =
               SelectSeq(well[i].segments, LAMBDA seg : ~MalformedSegment(seg))]]

\* C19 as stated: a malformed segment or shot never makes the cut builder or
\* the rebuild abort, and the cut requests and the remapped segments are those
\* of the document without its malformed records.
C19_MalformedRecordsDropped ==
    /\ exc = "ValueError" => DurationRaises(duration)
    /\ pc = "cuts" =>
           cuts = AddAll(CutRequests(duration,
                                     ShotStarts(WithoutMalformed(shots)),
                                     _collect_segments(WithoutMalformed(shots))),
                         duration, <<>>)
    /\ pc = "rebuilt" =>
           new_segments = Remap(WithoutMalformed(shots), hardcut_duration)[1]

\* --------------------------------------------------------------- C20
\* 0 <= start <= end <= hardcut_duration, with the step of the coarser
\* rounding (0.01 s) as the tolerance.
WithinPostCut(rec) ==
    /\ 0 <= rec.start
    /\ rec.start <= rec.end
    /\ rec.end <= hardcut_duration + Centi

\* C20 as stated: in the rebuilt document every new shot and every remapped
\* segment satisfies 0 <= start <= end <= post-cut duration, for any original
\* shot list, overlapping shots included, and any keep set.
C20_WithinPostCutDuration ==
    pc = "rebuilt" =>
        \A i \in 1..Len(new_data.shots) :
            /\ WithinPostCut(new_data.shots[i])
            /\ \A j \in 1..Len(new_data.shots[i].segments) :
                   WithinPostCut(new_data.shots[i].segments[j])

\* --------------------------------------------------------------- C21
\* The discard candidates of the document, written from their description:
\* the head trim, the tail trim, the window around the start of every shot
\* after the first, and the tail of every long segment.
DiscardCandidates ==
    LET sorted == _collect_shots(shots)
        segs == _collect_segments(shots)
    IN {<<0, TRIM_HEAD_SEC>>, <<duration - TRIM_TAIL_SEC, duration>>}
       \cup {<<sorted[i].start - SHOT_MARGIN_SEC, sorted[i].start + SHOT_MARGIN_SEC>> :
                i \in 2..Len(sorted)}
       \cup {<<segs[i][2] - SEG_TAIL_CUT_SEC, segs[i][2]>> :
                i \in {j \in 1..Len(segs) :
                          /\ segs[j][1] # NonNumeric /\ segs[j][2] # NonNumeric
                          /\ segs[j][2] - segs[j][1] >= LONG_SEG_THRESH_SEC}}

\* The keep list of compute_cut_and_keep_intervals has been computed.
KeepsComputed ==
    pc \in {"keeps", "rebuilt", "exit", "subtitle_done", "bgm_done", "done"}

\* C21: no keep interval overlaps, by more than EPS, the head trim, the tail
\* trim, the window around the start of a shot after the first, or the tail of
\* a long segment.
C21_KeepsAvoidCandidates ==
    KeepsComputed =>
        \A k \in 1..Len(keeps) : \A c \in DiscardCandidates :
            Min(keeps[k][2], c[2]) - Max(keeps[k][1], c[1]) <= EPS

\* Three keeps between a head trim, a shot window, a segment tail and a tail trim.
C21_Witness ==
    /\ pc = "keeps"
    /\ Len(keeps) = 3
    /\ Len(shots) = 2
    /\ \E c \in DiscardCandidates : c[2] - c[1] = SEG_TAIL_CUT_SEC /\ c[1] = keeps[2][2]

\* --------------------------------------------------------------- C22
\* A keep list sorted by start, inside [0, d], every keep longer than EPS and
\* consecutive keeps more than EPS apart.
KeepSetShape(ks, d) ==
    /\ \A i \in 1..Len(ks) :
          0 <= ks[i][1] /\ ks[i][2] <= d /\ ks[i][2] - ks[i][1] > EPS
    /\ \A i \in 1..(Len(ks) - 1) :
          ks[i][1] <= ks[i + 1][1] /\ ks[i + 1][1] - ks[i][2] > EPS

\* C22 as stated: for any sorted, disjoint cut list inside [0, D] the keep list
\* is sorted, inside [0, D], has every keep longer than EPS and consecutive
\* keeps more than EPS apart.
C22_KeepShapeAnyCuts ==
    pc = "keeps_of" => KeepSetShape(keeps, duration)

\* C22 for the cut lists _merge_intervals returns, and any other sorted,
\* disjoint list inside [0, D] whose cuts are all longer than EPS: the keep
\* list is sorted, inside [0, D], every keep is longer than EPS and consecutive
\* keeps are more than EPS apart.
C22_KeepShapeLongCuts ==
    /\ pc = "keeps" => KeepSetShape(keeps, duration)
    /\ pc = "keeps_of" /\ (\A i \in 1..Len(cuts_merged) :
                              cuts_merged[i][2] - cuts_merged[i][1] > EPS)
           => KeepSetShape(keeps, duration)

\* Long cuts given directly, with a keep on either side of one.
C22_Witness ==
    /\ pc = "keeps_of"
    /\ cuts_merged # <<>>
    /\ \A i \in 1..Len(cuts_merged) : cuts_merged[i][2] - cuts_merged[i][1] > EPS
    /\ Len(keeps) = 2

\* --------------------------------------------------------------- C23
\* C23 as stated: for a non-empty input in which every pair has length <= EPS,
\* _merge_intervals returns the empty list and does not fail.
C23_DegenerateInputGivesEmpty ==
    /\ pc \in {"merged", "raised"}
    /\ intervals # <<>>
    /\ \A i \in 1..Len(intervals) :
          Max(intervals[i][1], intervals[i][2])
              - Min(intervals[i][1], intervals[i][2]) <= EPS
    => pc = "merged" /\ merged = <<>> /\ exc = "none"

\* --------------------------------------------------------------- C24
\* The document has shots and none of them keeps more than EPS.
AllShotsCut == shots # <<>> /\ Survivors(EPS) = <<>>

\* C24: when the document has shots and every one of them is fully cut, the
\* rebuilt document has exactly one shot, from 0 to the logical duration
\* (rounded to 0.001 s, as the document reports it) with probability 1.0, and
\* it holds all the remapped segments in their order.
C24_FallbackShot ==
    pc = "rebuilt" /\ AllShotsCut =>
        /\ Len(new_data.shots) = 1
        /\ new_data.shots[1].start = 0
        /\ new_data.shots[1].end = RoundQ(logical_duration, Milli)
        /\ new_data.shots[1].end = new_data.video.logical_duration
        /\ new_data.shots[1].probability = ProbabilityOne
        /\ new_data.shots[1].segments = new_segments

\* A shot cut away but for two slivers, with two segments remapped.
C24_Witness ==
    /\ pc = "rebuilt"
    /\ AllShotsCut
    /\ Len(keeps) = 2
    /\ Len(new_segments) = 2
    /\ new_data.shots[1].end > 0

\* --------------------------------------------------------------- C25
\* The original lengths of the first i remapped segments, summed.
RECURSIVE OrigLength(_, _)
OrigLength(segs, i) ==
    IF i = 0 THEN 0
    ELSE OrigLength(segs, i - 1) + segs[i].orig_end - segs[i].orig_start

\* The flattened length is no longer than the post-cut duration plus 0.001 s.
NotLonger ==
    OrigLength(new_segments, Len(new_segments)) <= hardcut_duration + Milli

\* C25: when the flattened length is at most the post-cut duration plus the
\* tolerance, every remapped segment starts at the (0.01 s rounded) sum of the
\* lengths before it and ends at that sum plus its own length, and the logical
\* duration is the flattened length, also when that is shorter than the
\* post-cut duration.
C25_NoRescaleWhenNotLonger ==
    pc = "rebuilt" /\ NotLonger =>
        /\ \A i \in 1..Len(new_segments) :
              /\ new_segments[i].start = round2(OrigLength(new_segments, i - 1))
              /\ new_segments[i].end = round2(OrigLength(new_segments, i))
        /\ logical_duration = <<OrigLength(new_segments, Len(new_segments)), 1>>

\* Two segments whose lengths add up to less than the post-cut duration.
C25_Witness ==
    /\ pc = "rebuilt"
    /\ Len(new_segments) = 2
    /\ OrigLength(new_segments, 2) < hardcut_duration
    /\ new_segments[2].end < hardcut_duration

\* --------------------------------------------------------------- C26
\* The candidates accepted by the rule of the claim, in order: t is accepted
\* when t - cursor >= W and d - t >= W, and becomes the cursor.
RECURSIVE AcceptedCandidates(_, _, _, _)
AcceptedCandidates(cands, cursor, d, w) ==
    IF cands = <<>> THEN {}
    ELSE LET t == Head(cands)
         IN IF t - cursor >= w /\ d - t >= w
            THEN {t} \cup AcceptedCandidates(Tail(cands), t, d, w)
            ELSE AcceptedCandidates(Tail(cands), cursor, d, w)

\* The starts of all shots, the earliest included, that lie strictly inside
\* (0, d), in ascending order.
AllCandidates(shs, d) ==
    LET sorted == SortByStart(shs)
        inside == SelectSeq(sorted, LAMBDA sh : 0 < sh[1] /\ sh[1] < d)
    IN [i \in 1..Len(inside) |-> inside[i][1]]

\* The boundaries between the windows, and the end of the last window when it
\* is not the end of the recording.
WindowBoundaries(gs, d) == {gs[i][2] : i \in 1..Len(gs)} \ {d}

\* C26 as stated: every shot start strictly inside (0, duration), that of the
\* earliest shot included, is a candidate, and a candidate t is a window
\* boundary exactly when t - cursor >= W and duration - t >= W.
C26_EveryStartIsCandidate ==
    pc = "boundary" /\ bgm_shots # <<>> =>
        WindowBoundaries(groups, duration)
            = AcceptedCandidates(AllCandidates(bgm_shots, duration), 0,
                                 duration, min_window)

\* --------------------------------------------------------------- C27
\* With two or more windows the last one is at least w long.
LastLong(gs, w) == Len(gs) >= 2 => gs[Len(gs)][2] - gs[Len(gs)][1] >= w

\* No shot of the sorted list ends before the one before it ends.
EndsAscending(shs) == \A i \in 2..Len(shs) : shs[i][2] >= shs[i - 1][2]

\* C27 as stated: for any shot list sorted by start, when _build_bgm_groups
\* returns two or more windows the last one is at least W long.
C27_TailMergedAnyShots ==
    pc = "greedy" => LastLong(groups, min_window)

\* C27 for shot lists sorted by start in which no shot ends before the shot
\* before it ends (as in every list without overlap): when _build_bgm_groups
\* returns two or more windows the last one is at least W long. With a shot
\* nested in the one before it the merged window ends at the nested shot's end
\* and can be shorter than W.
C27_TailMergedEndsAscending ==
    pc = "greedy" /\ EndsAscending(_extract_shots(bgm_shots)) =>
        LastLong(groups, min_window)

\* Three windows were closed, the last one shorter than W, and two are returned.
C27_Witness ==
    /\ pc = "greedy"
    /\ EndsAscending(_extract_shots(bgm_shots))
    /\ Len(groups) = 2
    /\ LET shs == _extract_shots(bgm_shots)
           raw == GroupsLoop(Tail(shs), shs[1][1], shs[1][2], min_window, <<>>)
       IN Len(raw) = 3 /\ raw[3][2] - raw[3][1] < min_window

Tiles(shs, d) ==
    /\ shs # <<>>
    /\ shs[1][1] = 0
    /\ \A i \in 2..Len(shs) : shs[i][1] = shs[i - 1][2]
    /\ shs[Len(shs)][2] = d

\* The windows of the variant that was run are those of the other variant.
VariantsAgree ==
    /\ pc = "greedy" => groups = compute_bgm_groups(bgm_shots, duration, min_window)
    /\ pc = "boundary" => groups = _build_bgm_groups(_extract_shots(bgm_shots), min_window)

ShotsTile ==
    LET ss == SortShots(shots)
    IN /\ ss # <<>>
       /\ ss[1].start = 0
       /\ \A i \in 2..Len(ss) : ss[i].start = ss[i - 1].end
       /\ \A i \in 1..Len(ss) : ss[i].start <= ss[i].end
       /\ ss[Len(ss)].end = duration

\* The kept lengths of all shots, summed, counting the overlaps longer than thr.
RECURSIVE KeptTotal(_, _)
KeptTotal(shs, thr) ==
    IF shs = <<>> THEN 0
    ELSE OverlapSum(Head(shs), keeps, thr) + KeptTotal(Tail(shs), thr)

\* The pairs of a shot and a keep that overlap by EPS or less.
Slivers ==
    {p \in (1..Len(shots)) \X (1..Len(keeps)) :
        LET o == Min(shots[p[1]].end, keeps[p[2]][2])
                     - Max(shots[p[1]].start, keeps[p[2]][1])
        IN 0 < o /\ o <= EPS}

\* The end of the last new shot.
LastShotEnd == new_data.shots[Len(new_data.shots)].end

\* C30 as stated: when the shots tile [0, D] and the keeps are built for D, the
\* kept lengths of all shots add up to the lengths of the keeps, and the last
\* new shot ends at the reported post-cut duration.
C30_TiledShotsFillDuration ==
    pc = "rebuilt" /\ ShotsTile =>
        /\ KeptTotal(shots, EPS) = hardcut_duration
        /\ LastShotEnd = new_data.video.duration

\* C30 as the code has it: when the shots tile [0, D] the overlaps of all
\* shots with the keeps add up to the lengths of the keeps; the kept lengths
\* leave out the overlaps of EPS or less, so their sum falls short of it by at
\* most EPS for every such overlap, and the last new shot ends within 0.001 s
\* of the reported post-cut duration, at it when there is no such overlap.
C30_TiledShotsFillWithinSlivers ==
    pc = "rebuilt" /\ ShotsTile =>
        /\ KeptTotal(shots, 0) = hardcut_duration
        /\ KeptTotal(shots, EPS) <= hardcut_duration
        /\ hardcut_duration - KeptTotal(shots, EPS) <= EPS * Cardinality(Slivers)
        /\ Survivors(EPS) # <<>> =>
              /\ LastShotEnd <= new_data.video.duration
              /\ new_data.video.duration - LastShotEnd <= Milli
        /\ Slivers = {} => LastShotEnd = new_data.video.duration

\* Two tiling shots under two keeps, one overlap being a sliver of EPS.
C30_Witness ==
    /\ pc = "rebuilt"
    /\ ShotsTile
    /\ Len(shots) = 2
    /\ Len(keeps) = 2
    /\ Slivers # {}
    /\ KeptTotal(shots, EPS) < hardcut_duration
    /\ Len(new_data.shots) = 2

====
